---- MODULE Spec2Model ----
(***************************************************************************)
(* Model of src/src/stock.rs: a periodic price generator                   *)
(* (simulate_stock_changes) that mutates the shared stock registry under   *)
(* its mutex and publishes one snapshot per instrument on an unbounded     *)
(* crossbeam channel, broker worker threads (process_broker_actions) that  *)
(* compete for the snapshots and trade for their clients, and the main     *)
(* flow (run_simulation) that joins the workers and prints the report.     *)
(*                                                                         *)
(* Prices, counts and earnings are i32 in the source; every value the      *)
(* bounded model reaches stays far inside the i32 range, so plain integers *)
(* are used.                                                               *)
(***************************************************************************)
EXTENDS Integers, Sequences, FiniteSets, TLC

(***************************************************************************)
(* Bounds of the model.                                                    *)
(***************************************************************************)
\* number of instrument updates of the periodic closure the model follows
MaxUpdates == 2
\* largest transaction limit the model configures (the source configures 10)
MaxLimit == 2

(***************************************************************************)
(* Program constants.                                                      *)
(***************************************************************************)
\* rng.gen_range(-40..=60)
MinDelta == -40
MaxDelta == 60
\* rand::thread_rng().gen_range(10..=100)
MinQuantity == 10
MaxQuantity == 100

\* The values of the two random draws the model follows. Price deltas: the
\* ends of the range, zero, and values at, inside and outside the thresholds
\* 25 and 40. Quantities: the low end of the range and one inner value.
\* the range's upper end written one too far
DeltasPastEnd == {MinDelta, 0, MaxDelta + 1}
Deltas == {d \in MinDelta..MaxDelta : d \in {MinDelta, -25, -20, 0, 10, 30, 40, MaxDelta}}
Quantities == {q \in MinQuantity..MaxQuantity : q \in {MinQuantity, 50}}

(***************************************************************************)
(* Stock::stock_type: the name -> sector table; any other name reaches     *)
(* unreachable!(), which panics the calling thread.                        *)
(***************************************************************************)
TechNames == {"AAPL", "AMZN", "GOOGL", "MSFT", "TSLA", "FB", "CRM", "INTC", "NVDA",
              "WORK", "FSLY", "CRWD", "DOCU"}
FoodNames == {"KO", "PEP", "MCD", "SBUX", "GIS", "HSY", "KR", "CPB", "WMT", "TGT",
              "COST", "PG", "UN", "SYY", "FLO", "WBA"}
HealthcareNames == {"MDLZ", "MRK", "AMGN", "UNH", "HCA", "ANTM", "DHR", "ABT", "TMO",
                    "REGN", "ILMN", "MDT", "ZBH", "VRTX", "IDXX", "DGX"}

stock_type(name) ==
    IF name \in TechNames THEN "Tech"
    ELSE IF name \in FoodNames THEN "Food"
    ELSE IF name \in HealthcareNames THEN "Healthcare"
    ELSE "unreachable"

StockType == {"Tech", "Food", "Healthcare"}

(***************************************************************************)
(* run_simulation: the configuration tables.                               *)
(***************************************************************************)
\* vec![Stock { name, v, prev_v }, ...], in the order of the source
InitialStocks == <<
    [name |-> "AMZN", v |-> 200, prev_v |-> 200],
    [name |-> "GOOGL", v |-> 120, prev_v |-> 120],
    [name |-> "MSFT", v |-> 130, prev_v |-> 130],
    [name |-> "TSLA", v |-> 300, prev_v |-> 300],
    [name |-> "FB", v |-> 156, prev_v |-> 156],
    [name |-> "CRM", v |-> 90, prev_v |-> 90],
    [name |-> "INTC", v |-> 245, prev_v |-> 245],
    [name |-> "NVDA", v |-> 187, prev_v |-> 187],
    [name |-> "WORK", v |-> 65, prev_v |-> 65],
    [name |-> "FSLY", v |-> 110, prev_v |-> 110],
    [name |-> "CRWD", v |-> 125, prev_v |-> 125],
    [name |-> "DOCU", v |-> 240, prev_v |-> 240],
    [name |-> "NOW", v |-> 180, prev_v |-> 180],
    [name |-> "PLTR", v |-> 95, prev_v |-> 95],
    [name |-> "KO", v |-> 310, prev_v |-> 310],
    [name |-> "PEP", v |-> 400, prev_v |-> 400],
    [name |-> "MCD", v |-> 170, prev_v |-> 170],
    [name |-> "SBUX", v |-> 200, prev_v |-> 200],
    [name |-> "GIS", v |-> 67, prev_v |-> 67],
    [name |-> "HSY", v |-> 276, prev_v |-> 276],
    [name |-> "KR", v |-> 22, prev_v |-> 22],
    [name |-> "CPB", v |-> 120, prev_v |-> 120],
    [name |-> "PER", v |-> 400, prev_v |-> 400],
    [name |-> "WMT", v |-> 150, prev_v |-> 150],
    [name |-> "TGT", v |-> 90, prev_v |-> 90],
    [name |-> "COST", v |-> 280, prev_v |-> 280],
    [name |-> "PG", v |-> 200, prev_v |-> 200],
    [name |-> "UN", v |-> 170, prev_v |-> 170],
    [name |-> "SYY", v |-> 110, prev_v |-> 110],
    [name |-> "FLO", v |-> 30, prev_v |-> 30],
    [name |-> "WBA", v |-> 55, prev_v |-> 55],
    [name |-> "MDLZ", v |-> 330, prev_v |-> 330],
    [name |-> "MRK", v |-> 280, prev_v |-> 280],
    [name |-> "AMGN", v |-> 430, prev_v |-> 430],
    [name |-> "UNH", v |-> 120, prev_v |-> 120],
    [name |-> "HCA", v |-> 88, prev_v |-> 88],
    [name |-> "ANTM", v |-> 22, prev_v |-> 22],
    [name |-> "DHR", v |-> 120, prev_v |-> 120],
    [name |-> "ABT", v |-> 400, prev_v |-> 400],
    [name |-> "TMO", v |-> 150, prev_v |-> 150],
    [name |-> "REGN", v |-> 90, prev_v |-> 90],
    [name |-> "ILMN", v |-> 280, prev_v |-> 280],
    [name |-> "MDT", v |-> 200, prev_v |-> 200],
    [name |-> "ZBH", v |-> 170, prev_v |-> 170],
    [name |-> "VRTX", v |-> 110, prev_v |-> 110],
    [name |-> "IDXX", v |-> 30, prev_v |-> 30],
    [name |-> "DGX", v |-> 55, prev_v |-> 55]
    >>

\* A registry of the model: n consecutive instruments of the table from the
\* s-th on. The history fields v_tick and prev_tick name the run of the
\* closure that wrote v and prev_v (0: the initial table).
Window(s, n) ==
    [i \in 1..n |->
        [name |-> InitialStocks[s + i - 1].name, v |-> InitialStocks[s + i - 1].v,
         prev_v |-> InitialStocks[s + i - 1].prev_v, v_tick |-> 0, prev_tick |-> 0]]

Brokers == {"Broker 1", "Broker 2", "Broker 3"}
\* the order in which run_simulation joins the workers
JoinOrder == <<"Broker 1", "Broker 2", "Broker 3">>

Pref(t, cat, buy, sell) ==
    [stock_type |-> t, order_category |-> cat, min_change_buy |-> buy, min_change_sell |-> sell]

\* client_preferences_broker1, client_preferences_broker2, client_preferences_broker3
SourcePreferences ==
    [b \in Brokers |->
        IF b = "Broker 1"
        THEN [c \in {"John", "Peter"} |-> Pref("Tech", "Market", 0, 0)]
        ELSE IF b = "Broker 2"
        THEN [c \in {"James"} |-> Pref("Food", "Limit", 25, 40)]
        ELSE [c \in {"Alex", "Mike"} |->
                 IF c = "Alex" THEN Pref("Healthcare", "Limit", 10, 30)
                 ELSE Pref("Tech", "Market", 0, 0)]]

\* process_broker_actions takes any roster: the rosters with one client for
\* Broker 1 and none for the other two.
SourceWindows == {<<1, 1>>, <<12, 2>>, <<14, 2>>, <<15, 1>>}
SingleWindows == {<<1, 1>>, <<1, 2>>}

NoClients == [c \in {} |-> Pref("Tech", "Market", 0, 0)]
SingleClientPrefs ==
    {Pref("Tech", cat, th[1], th[2]) : cat \in {"Market", "Limit"},
                                       th \in {<<0, 0>>, <<25, 40>>}}
SinglePreferences ==
    {[b \in Brokers |-> IF b = "Broker 1" THEN [c \in {"Client"} |-> p] ELSE NoClients] :
        p \in SingleClientPrefs}

\* The configurations the model starts from: the tables of run_simulation
\* over windows of its registry, and the single-client rosters.
Configs ==
    {[stocks |-> Window(w[1], w[2]), preferences |-> SourcePreferences, limit |-> l] :
        w \in SourceWindows, l \in 1..MaxLimit}
    \cup
    {[stocks |-> Window(w[1], w[2]), preferences |-> p, limit |-> l] :
        w \in SingleWindows, p \in SinglePreferences, l \in 0..MaxLimit}

VARIABLES
    shared_stock,         \* the registry: Arc<Mutex<Vec<Stock>>>
    tick_i,               \* index of the closure's for loop; 0: the closure is not running
    ticks,                \* runs of the periodic closure started so far
    sender_alive,         \* the Sender owned by the periodic closure exists
    channel,              \* the unbounded channel's queue of Stock snapshots
    client_preferences,   \* per worker: client -> (StockType, category, min buy, min sell)
    transaction_limit,    \* the limit handed to every worker
    pc,                   \* per worker thread: "running", "done" (returned), "panicked"
    client_transactions,  \* per worker: client -> count
    client_earnings,      \* per worker: client -> earnings, for the clients that sold
    stock,                \* per worker: the snapshot of its last recv()
    orders,               \* per worker: the orders placed for that snapshot, per client
    main_pc,              \* the main flow: "joining", "done" (report printed), "panicked"
    joined,               \* number of JoinHandles the main flow has joined
    earnings_broker,      \* earnings_broker1..3: the maps join() returned, per worker
    report,               \* the final report printed, per worker; empty before
    sent,                 \* history: <<run of the closure, index>> of every send, in order
    delivered,            \* history: the seq of every snapshot a recv() returned, in order
    before                \* history: per instrument, its v before its last update

vars == <<shared_stock, tick_i, ticks, sender_alive, channel, client_preferences,
          transaction_limit, pc, client_transactions, client_earnings, stock, orders,
          main_pc, joined, earnings_broker, report, sent, delivered, before>>

config_vars == <<client_preferences, transaction_limit>>
generator_vars == <<shared_stock, tick_i, ticks, sent, before>>
worker_vars == <<pc, client_transactions, client_earnings, stock, orders, delivered>>
channel_vars == <<channel, sender_alive>>
main_vars == <<main_pc, joined, earnings_broker, report>>

NoStock == [name |-> "", v |-> 0, prev_v |-> 0, v_tick |-> 0, prev_tick |-> 0, seq |-> 0]
NoOrders == [c \in {} |-> 0]
NoEarnings == [c \in {} |-> 0]

Clients(b) == DOMAIN client_preferences[b]

Init ==
    /\ \E cfg \in Configs :
        /\ shared_stock = cfg.stocks
        /\ client_preferences = cfg.preferences
        /\ transaction_limit = cfg.limit
    /\ tick_i = 0
    /\ ticks = 0
    /\ sender_alive = TRUE
    /\ channel = <<>>
    /\ pc = [b \in Brokers |-> "running"]
    /\ client_transactions = [b \in Brokers |-> [c \in DOMAIN client_preferences[b] |-> 0]]
    /\ client_earnings = [b \in Brokers |-> NoEarnings]
    /\ stock = [b \in Brokers |-> NoStock]
    /\ orders = [b \in Brokers |-> NoOrders]
    /\ main_pc = "joining"
    /\ joined = 0
    /\ earnings_broker = [b \in {} |-> NoEarnings]
    /\ report = [b \in {} |-> NoEarnings]
    /\ sent = <<>>
    /\ delivered = <<>>
    /\ before = [i \in DOMAIN shared_stock |-> shared_stock[i].v]

(***************************************************************************)
(* simulate_stock_changes: the periodic closure.                           *)
(***************************************************************************)
\* a Receiver lives in each worker thread until the thread ends
ReceiversAlive == \E b \in Brokers : pc[b] = "running"

\* stock.prev_v = stock.v; stock.v += rng.gen_range(-40..=60);
\* prev_v saved after v has moved
UpdatedStockLate(s, d, t) ==
    [s EXCEPT !.v = s.v + d, !.v_tick = t, !.prev_v = s.v + d, !.prev_tick = t]
UpdatedStock(s, d, t) ==
    [s EXCEPT !.prev_v = s.v, !.prev_tick = t, !.v = s.v + d, !.v_tick = t]

\* stock.clone(), with the position of the send in the channel's history
Snapshot(s) ==
    [name |-> s.name, v |-> s.v, prev_v |-> s.prev_v, v_tick |-> s.v_tick,
     prev_tick |-> s.prev_tick, seq |-> Len(sent) + 1]

\* the scheduler starts a run of the closure: shared_stock.lock()
TickStart ==
    /\ sender_alive
    /\ tick_i = 0
    /\ (ticks + 1) * Len(shared_stock) <= MaxUpdates
    /\ tick_i' = 1
    /\ ticks' = ticks + 1
    /\ UNCHANGED <<shared_stock, sent, before, sender_alive, channel>>
    /\ UNCHANGED <<config_vars, worker_vars, main_vars>>

\* the loop left after a send that succeeded instead of one that failed
TickStepBreakOnOk ==
    /\ tick_i > 0
    /\ \E d \in Deltas :
        LET updated == UpdatedStock(shared_stock[tick_i], d, ticks) IN
        /\ shared_stock' = [shared_stock EXCEPT ![tick_i] = updated]
        /\ before' = [before EXCEPT ![tick_i] = shared_stock[tick_i].v]
        /\ IF ReceiversAlive
           THEN /\ channel' = Append(channel, Snapshot(updated))
                /\ sent' = Append(sent, <<ticks, tick_i>>)
                /\ tick_i' = 0
           ELSE /\ tick_i' = IF tick_i = Len(shared_stock) THEN 0 ELSE tick_i + 1
                /\ UNCHANGED <<channel, sent>>
    /\ UNCHANGED <<ticks, sender_alive>>
    /\ UNCHANGED <<config_vars, worker_vars, main_vars>>
\* one iteration of `for stock in stocks.iter_mut()`; the guard is dropped
\* when the loop ends or breaks
TickStep ==
    /\ tick_i > 0
    /\ \E d \in Deltas :
        LET updated == UpdatedStock(shared_stock[tick_i], d, ticks) IN
        /\ shared_stock' = [shared_stock EXCEPT ![tick_i] = updated]
        /\ before' = [before EXCEPT ![tick_i] = shared_stock[tick_i].v]
        /\ IF ReceiversAlive
           THEN /\ channel' = Append(channel, Snapshot(updated))
                /\ sent' = Append(sent, <<ticks, tick_i>>)
                /\ tick_i' = IF tick_i = Len(shared_stock) THEN 0 ELSE tick_i + 1
           ELSE /\ tick_i' = 0
                /\ UNCHANGED <<channel, sent>>
    /\ UNCHANGED <<ticks, sender_alive>>
    /\ UNCHANGED <<config_vars, worker_vars, main_vars>>

\* run_simulation ends (returns or unwinds): `sched` is dropped and with it
\* the closure and its Sender
DropSender ==
    /\ main_pc \in {"done", "panicked"}
    /\ tick_i = 0
    /\ sender_alive
    /\ sender_alive' = FALSE
    /\ UNCHANGED <<shared_stock, tick_i, ticks, sent, before, channel>>
    /\ UNCHANGED <<config_vars, worker_vars, main_vars>>

(***************************************************************************)
(* process_broker_actions: one worker thread.                              *)
(***************************************************************************)
\* all() written for any()
LoopConditionAll(b) == \A c \in Clients(b) : client_transactions[b][c] < transaction_limit
\* client_transactions.values().any(|&v| v < transaction_limit)
LoopCondition(b) == \E c \in Clients(b) : client_transactions[b][c] < transaction_limit

\* the prices read from the registry at the time of the receive
RecvItemFromRegistry(q) ==
    LET i == CHOOSE k \in DOMAIN shared_stock : shared_stock[k].name = Head(q).name
    IN  [Head(q) EXCEPT !.v = shared_stock[i].v, !.prev_v = shared_stock[i].prev_v,
                        !.v_tick = shared_stock[i].v_tick,
                        !.prev_tick = shared_stock[i].prev_tick]
\* sel_r.recv() returning Ok: the item handed over and what stays queued
RecvItem(q) == Head(q)
\* a receive that leaves the item queued for the next receiver
RecvRestPeek(q) == q
RecvRest(q) == Tail(q)

\* let price_change = stock.v - stock.prev_v;
price_change(s) == s.v - s.prev_v

\* the threshold skip applied to every category
SkippedAnyCategory(p, s) ==
    \/ stock_type(s.name) # p.stock_type
    \/ /\ price_change(s) > -p.min_change_buy
       /\ price_change(s) < p.min_change_sell
\* the `continue` of the first if
Skipped(p, s) ==
    \/ stock_type(s.name) # p.stock_type
    \/ /\ p.order_category # "Market"
       /\ price_change(s) > -p.min_change_buy
       /\ price_change(s) < p.min_change_sell

\* the buy threshold compared strictly
BuyTriggersStrict(p, s) ==
    /\ p.order_category = "Market" \/ price_change(s) < -p.min_change_buy
    /\ s.v < s.prev_v
BuyTriggers(p, s) ==
    /\ p.order_category = "Market" \/ price_change(s) <= -p.min_change_buy
    /\ s.v < s.prev_v

\* the sell direction compared with >=
SellTriggersOnZero(p, s) ==
    /\ p.order_category = "Market" \/ price_change(s) >= p.min_change_sell
    /\ s.v >= s.prev_v
SellTriggers(p, s) ==
    /\ p.order_category = "Market" \/ price_change(s) >= p.min_change_sell
    /\ s.v > s.prev_v

\* the order_type of the order placed for a client, "none" when process_order
\* stays false or the client is skipped
order_type(p, s) ==
    IF Skipped(p, s) THEN "none"
    ELSE IF BuyTriggers(p, s) THEN "buying"
    ELSE IF SellTriggers(p, s) THEN "selling"
    ELSE "none"

\* Order::new(...), without the reason text
Order(s, side, quantity, category) ==
    [stock_name |-> s.name, order_type |-> side, quantity |-> quantity, price |-> s.v,
     prev_price |-> s.prev_v, order_category |-> category]

\* the price difference taken the other way round
EarningsSwapped(quantity, s) == quantity * (s.prev_v - s.v)
\* earnings taken from the price instead of the price difference
EarningsOfPrice(quantity, s) == quantity * s.v
\* let earnings = quantity * (stock.v - stock.prev_v);
Earnings(quantity, s) == quantity * (s.v - s.prev_v)

\* the count raised by two for one order
IncrementedTwice(count) == count + 2
\* *count += 1;
Incremented(count) == count + 1

\* the clients of worker b for which the update s places an order
Trading(b, s) == {c \in Clients(b) : order_type(client_preferences[b][c], s) # "none"}

\* the earnings entry created for every order, before the side is looked at
PlaceOrdersEntryFirst(b, s, placed) ==
    LET sellers == {c \in DOMAIN placed : placed[c].order_type = "selling"}
        old == client_earnings[b]
    IN  /\ orders' = [orders EXCEPT ![b] = placed]
        /\ client_transactions' =
               [client_transactions EXCEPT ![b] =
                   [c \in Clients(b) |-> IF c \in DOMAIN placed THEN Incremented(@[c]) ELSE @[c]]]
        /\ client_earnings' =
               [client_earnings EXCEPT ![b] =
                   [c \in DOMAIN old \cup DOMAIN placed |->
                       (IF c \in DOMAIN old THEN old[c] ELSE 0)
                       + (IF c \in sellers THEN Earnings(placed[c].quantity, s) ELSE 0)]]
\* the body of the for loop over client_preferences, for the orders `placed`
PlaceOrders(b, s, placed) ==
    LET sellers == {c \in DOMAIN placed : placed[c].order_type = "selling"}
        old == client_earnings[b]
    IN  /\ orders' = [orders EXCEPT ![b] = placed]
        /\ client_transactions' =
               [client_transactions EXCEPT ![b] =
                   [c \in Clients(b) |-> IF c \in DOMAIN placed THEN Incremented(@[c]) ELSE @[c]]]
        /\ client_earnings' =
               [client_earnings EXCEPT ![b] =
                   [c \in DOMAIN old \cup sellers |->
                       (IF c \in DOMAIN old THEN old[c] ELSE 0)
                       + (IF c \in sellers THEN Earnings(placed[c].quantity, s) ELSE 0)]]

\* one pass of the while loop: the condition holds, recv() returns a snapshot
\* and the for loop runs over the roster; stock_type() panics the thread on a
\* name outside its table
Receive(b) ==
    /\ pc[b] = "running"
    /\ LoopCondition(b)
    /\ channel # <<>>
    /\ LET s == RecvItem(channel) IN
        /\ channel' = RecvRest(channel)
        /\ delivered' = Append(delivered, s.seq)
        /\ stock' = [stock EXCEPT ![b] = s]
        /\ IF stock_type(s.name) = "unreachable"
           THEN /\ pc' = [pc EXCEPT ![b] = "panicked"]
                /\ orders' = [orders EXCEPT ![b] = NoOrders]
                /\ UNCHANGED <<client_transactions, client_earnings>>
           ELSE /\ \E quantity \in [Trading(b, s) -> Quantities] :
                    PlaceOrders(b, s,
                        [c \in Trading(b, s) |->
                            Order(s, order_type(client_preferences[b][c], s), quantity[c],
                                  client_preferences[b][c].order_category)])
                /\ UNCHANGED pc
    /\ UNCHANGED sender_alive
    /\ UNCHANGED <<config_vars, generator_vars, main_vars>>

\* the while condition is false: the thread returns client_earnings
WorkerReturn(b) ==
    /\ pc[b] = "running"
    /\ ~LoopCondition(b)
    /\ pc' = [pc EXCEPT ![b] = "done"]
    /\ UNCHANGED <<client_transactions, client_earnings, stock, orders, delivered>>
    /\ UNCHANGED <<config_vars, generator_vars, channel_vars, main_vars>>

\* a receive that gives up on an empty queue while the Sender lives
WorkerDisconnectedOnEmpty(b) ==
    /\ pc[b] = "running"
    /\ LoopCondition(b)
    /\ channel = <<>>
    /\ pc' = [pc EXCEPT ![b] = "done"]
    /\ UNCHANGED <<client_transactions, client_earnings, stock, orders, delivered>>
    /\ UNCHANGED <<config_vars, generator_vars, channel_vars, main_vars>>
\* recv() returns Err (the channel is empty and its Sender is gone): break
WorkerDisconnected(b) ==
    /\ pc[b] = "running"
    /\ LoopCondition(b)
    /\ channel = <<>>
    /\ ~sender_alive
    /\ pc' = [pc EXCEPT ![b] = "done"]
    /\ UNCHANGED <<client_transactions, client_earnings, stock, orders, delivered>>
    /\ UNCHANGED <<config_vars, generator_vars, channel_vars, main_vars>>

(***************************************************************************)
(* run_simulation: the joins and the final report.                         *)
(***************************************************************************)
\* a join that does not wait for the thread
JoinableAtOnce(b) == TRUE
\* JoinHandle::join returns once the thread has ended
Joinable(b) == pc[b] # "running"

\* brokerN_thread.join().unwrap(): Ok(map) of a thread that returned, a panic
\* of the main flow for a thread that panicked
Join ==
    /\ main_pc = "joining"
    /\ joined < Len(JoinOrder)
    /\ LET b == JoinOrder[joined + 1] IN
        /\ Joinable(b)
        /\ IF pc[b] = "panicked"
           THEN /\ main_pc' = "panicked"
                /\ UNCHANGED <<joined, earnings_broker>>
           ELSE /\ joined' = joined + 1
                /\ earnings_broker' = (b :> client_earnings[b]) @@ earnings_broker
                /\ UNCHANGED main_pc
    /\ UNCHANGED report
    /\ UNCHANGED <<config_vars, generator_vars, channel_vars, worker_vars>>

\* println!("Final report:") and the three loops over the joined maps
Report ==
    /\ main_pc = "joining"
    /\ joined = Len(JoinOrder)
    /\ main_pc' = "done"
    /\ report' = earnings_broker
    /\ UNCHANGED <<joined, earnings_broker>>
    /\ UNCHANGED <<config_vars, generator_vars, channel_vars, worker_vars>>

Next ==
    \/ TickStart
    \/ TickStep
    \/ DropSender
    \/ \E b \in Brokers : Receive(b)
    \/ \E b \in Brokers : WorkerReturn(b)
    \/ \E b \in Brokers : WorkerDisconnected(b)
    \/ Join
    \/ Report

Spec == Init /\ [][Next]_vars

(***************************************************************************)
(* Properties.                                                             *)
(***************************************************************************)
\* the snapshots that exist outside the registry: queued, or held by a worker
Received(b) == stock[b].seq > 0
Snapshots == {channel[k] : k \in DOMAIN channel} \cup {stock[b] : b \in {x \in Brokers : Received(x)}}

\* the worker has run its for loop over the snapshot it holds
Processed(b) == Received(b) /\ pc[b] # "panicked"

\* a client's cumulative earnings, zero without an entry
EarningsOf(map, c) == IF c \in DOMAIN map THEN map[c] ELSE 0

\* C1: in every reachable state, no client's transaction count exceeds the
\* configured transaction limit.
CountsWithinLimit ==
    \A b \in Brokers : \A c \in Clients(b) : client_transactions[b][c] <= transaction_limit

\* C2: every update sent is either still queued or was handed over by exactly
\* one recv(): no seq is delivered twice, none is both queued and delivered,
\* none is lost, and no two workers hold the same update.
ExactlyOnceDelivery ==
    /\ \A i, j \in DOMAIN delivered : i # j => delivered[i] # delivered[j]
    /\ \A i, j \in DOMAIN channel : i # j => channel[i].seq # channel[j].seq
    /\ \A i \in DOMAIN delivered : \A k \in DOMAIN channel : delivered[i] # channel[k].seq
    /\ {delivered[i] : i \in DOMAIN delivered} \cup {channel[k].seq : k \in DOMAIN channel}
           = 1..Len(sent)
    /\ \A b \in Brokers : Received(b) => \E i \in DOMAIN delivered : delivered[i] = stock[b].seq
    /\ \A b1, b2 \in Brokers : (b1 # b2 /\ Received(b1)) => stock[b1].seq # stock[b2].seq

\* two updates were sent and two different workers each received one of them
TwoWorkersReceived ==
    /\ Len(delivered) >= 2
    /\ \E b1, b2 \in Brokers : b1 # b2 /\ Received(b1) /\ Received(b2)

\* C3: every update a worker receives has a name the sector lookup classifies,
\* and no worker reaches the unreachable!() branch.
NoUnclassifiedName ==
    \A b \in Brokers :
        /\ Received(b) => stock_type(stock[b].name) \in StockType
        /\ pc[b] # "panicked"

\* C4: an updated instrument's prev_v is the v it had before its last update,
\* and every snapshot carries a v and a prev_v written by the same run of the
\* closure: the pair the registry held at the end of that update.
TickPairsAtomic ==
    /\ \A i \in DOMAIN shared_stock :
        shared_stock[i].v_tick > 0 =>
            /\ shared_stock[i].prev_v = before[i]
            /\ shared_stock[i].prev_tick = shared_stock[i].v_tick
    /\ \A s \in Snapshots :
        /\ s.v_tick >= 1
        /\ s.prev_tick = s.v_tick
        /\ \A i \in DOMAIN shared_stock :
            (shared_stock[i].name = s.name /\ shared_stock[i].v_tick = s.v_tick) =>
                (s.v = shared_stock[i].v /\ s.prev_v = shared_stock[i].prev_v)

\* a worker holds a snapshot of an instrument's second update whose price moved
\* in both updates
SecondTickReceived ==
    \E b \in Brokers :
        /\ Received(b)
        /\ stock[b].v_tick = 2
        /\ stock[b].v # stock[b].prev_v
        /\ \E i \in 1..Len(InitialStocks) :
            InitialStocks[i].name = stock[b].name /\ InitialStocks[i].v # stock[b].prev_v

\* C5: the delta v - prev_v of every updated instrument lies in [-40, 60], and
\* so does the price change of every snapshot a worker receives.
DeltaInRange ==
    /\ \A i \in DOMAIN shared_stock :
        shared_stock[i].v_tick > 0 =>
            (shared_stock[i].v - shared_stock[i].prev_v >= -40
             /\ shared_stock[i].v - shared_stock[i].prev_v <= 60)
    /\ \A s \in Snapshots : s.v - s.prev_v >= -40 /\ s.v - s.prev_v <= 60
    /\ \A b \in Brokers : Received(b) => (price_change(stock[b]) >= -40 /\ price_change(stock[b]) <= 60)

\* a worker holds an update at the top of the range while one at the bottom of
\* the range is queued
BothEndsOfRange ==
    \E b \in Brokers :
        /\ Received(b)
        /\ price_change(stock[b]) = 60
        /\ \E k \in DOMAIN channel : channel[k].v - channel[k].prev_v = -40

\* the worker's order for a client on the snapshot it holds, "none" without one
Placed(b, c) == IF c \in DOMAIN orders[b] THEN orders[b][c].order_type ELSE "none"

\* the client's count before the worker processed the snapshot it holds
CountBefore(b, c) == client_transactions[b][c] - (IF c \in DOMAIN orders[b] THEN 1 ELSE 0)

\* C6: a Market client below its quota is never skipped on an update of its
\* sector: it buys when the price fell and sells when it rose, whatever its
\* thresholds are.
MarketAlwaysTrades ==
    \A b \in Brokers : Processed(b) =>
        \A c \in Clients(b) :
            LET p == client_preferences[b][c]
                s == stock[b]
            IN  (/\ p.order_category = "Market"
                 /\ stock_type(s.name) = p.stock_type
                 /\ CountBefore(b, c) < transaction_limit) =>
                    /\ s.v < s.prev_v => Placed(b, c) = "buying"
                    /\ s.v > s.prev_v => Placed(b, c) = "selling"

\* a Market client with thresholds 25 and 40, below its quota, sold on a price
\* change of 10
MarketSoldInsideThresholds ==
    \E b \in Brokers : \E c \in Clients(b) :
        /\ Processed(b)
        /\ client_preferences[b][c] = Pref("Tech", "Market", 25, 40)
        /\ stock_type(stock[b].name) = "Tech"
        /\ CountBefore(b, c) < transaction_limit
        /\ stock[b].v - stock[b].prev_v = 10
        /\ Placed(b, c) = "selling"

\* C7: a Limit client places no order on an update of its sector whose price
\* change lies strictly inside (-min_change_buy, min_change_sell); it buys iff
\* the change is <= -min_change_buy and negative, sells iff it is >=
\* min_change_sell and positive; with 25 and 40: nothing at 10, a buy at -25, a
\* sell at 40.
LimitThresholds ==
    \A b \in Brokers : Processed(b) =>
        \A c \in Clients(b) :
            LET p == client_preferences[b][c]
                d == stock[b].v - stock[b].prev_v
            IN  (p.order_category = "Limit" /\ stock_type(stock[b].name) = p.stock_type) =>
                    /\ (d > -p.min_change_buy /\ d < p.min_change_sell) => Placed(b, c) = "none"
                    /\ Placed(b, c) = "buying" <=> (d <= -p.min_change_buy /\ d < 0)
                    /\ Placed(b, c) = "selling" <=> (d >= p.min_change_sell /\ d > 0)
                    /\ (p.min_change_buy = 25 /\ p.min_change_sell = 40) =>
                        /\ d = 10 => Placed(b, c) = "none"
                        /\ d = -25 => Placed(b, c) = "buying"
                        /\ d = 40 => Placed(b, c) = "selling"

\* a Limit client with thresholds 25 and 40 sold on a change of exactly 40 and
\* then bought on a change of exactly -25
LimitBoundariesTrigger ==
    \E b \in Brokers : \E c \in Clients(b) :
        /\ Processed(b)
        /\ client_preferences[b][c] = Pref("Tech", "Limit", 25, 40)
        /\ stock[b].v - stock[b].prev_v = -25
        /\ Placed(b, c) = "buying"
        /\ client_transactions[b][c] = 2
        /\ c \in DOMAIN client_earnings[b]
        /\ client_earnings[b][c] \in {10 * 40, 50 * 40}

\* C8: in every step, the worker that receives an update adds, for each client
\* with a Sell order, exactly quantity * (v - prev_v) to that client's earnings
\* and nothing to a client without one; no other step changes any earnings.
SellAddsEarnings ==
    [][\A b \in Brokers :
          IF stock'[b] # stock[b]
          THEN \A c \in Clients(b) :
                   EarningsOf(client_earnings'[b], c) =
                       EarningsOf(client_earnings[b], c)
                       + (IF c \in DOMAIN orders'[b] /\ orders'[b][c].order_type = "selling"
                          THEN orders'[b][c].quantity * (stock'[b].v - stock'[b].prev_v)
                          ELSE 0)
          ELSE client_earnings'[b] = client_earnings[b]]_vars

\* the only client of a worker, Market and Tech, sold 50 on the update from 200
\* to 230 and has earned 1500
SellExample ==
    \E b \in Brokers : \E c \in Clients(b) :
        /\ Clients(b) = {c}
        /\ client_preferences[b][c].order_category = "Market"
        /\ client_preferences[b][c].stock_type = "Tech"
        /\ stock[b].v = 230 /\ stock[b].prev_v = 200
        /\ Placed(b, c) = "selling"
        /\ orders[b][c].quantity = 50
        /\ client_earnings[b] = (c :> 1500)

\* C9: in every step, a Buy order raises its client's count by one and leaves
\* every earnings map as it was, and a client gets an earnings entry only in a
\* step that places a Sell order for it.
BuyLeavesEarnings ==
    [][\A b \in Brokers :
          /\ stock'[b] # stock[b] =>
                \A c \in DOMAIN orders'[b] :
                    orders'[b][c].order_type = "buying" =>
                        /\ client_transactions'[b][c] = client_transactions[b][c] + 1
                        /\ client_earnings' = client_earnings
          /\ \A c \in DOMAIN client_earnings'[b] \ DOMAIN client_earnings[b] :
                /\ stock'[b] # stock[b]
                /\ c \in DOMAIN orders'[b]
                /\ orders'[b][c].order_type = "selling"]_vars

\* the only client of a worker, Market and Tech with limit 1, bought on the
\* update from 200 to 180; the worker returned and the report has no entry for
\* the client
BuyExample ==
    \E b \in Brokers : \E c \in Clients(b) :
        /\ Clients(b) = {c}
        /\ client_preferences[b][c].order_category = "Market"
        /\ client_preferences[b][c].stock_type = "Tech"
        /\ transaction_limit = 1
        /\ stock[b].v = 180 /\ stock[b].prev_v = 200
        /\ Placed(b, c) = "buying"
        /\ client_transactions[b][c] = 1
        /\ pc[b] = "done"
        /\ main_pc = "done"
        /\ DOMAIN report[b] = {}

\* C10: the report exists only once the main flow has joined every worker;
\* then every worker has returned, every client has reached the limit, and the
\* report holds for each worker the earnings map it returned.
ReportAfterAllReturned ==
    (main_pc = "done" \/ DOMAIN report # {}) =>
        /\ main_pc = "done"
        /\ DOMAIN report = Brokers
        /\ \A b \in Brokers :
            /\ pc[b] = "done"
            /\ \A c \in Clients(b) : client_transactions[b][c] >= transaction_limit
            /\ report[b] = client_earnings[b]

\* the report was printed and holds earnings of a client that sold
ReportWithEarnings ==
    /\ main_pc = "done"
    /\ \E b \in DOMAIN report : \E c \in DOMAIN report[b] : report[b][c] > 0

\* C11: a worker that has stopped either has every client of its roster at
\* the limit, or stopped on a channel that is closed and empty.
StopsOnlyByQuotaOrClosure ==
    \A b \in Brokers :
        pc[b] # "running" =>
            \/ \A c \in Clients(b) : client_transactions[b][c] >= transaction_limit
            \/ ~sender_alive /\ channel = <<>>

\* C12: every count starts at 0 and every step leaves it or raises it by one.
CountsNonDecreasing ==
    /\ \A b \in Brokers : \A c \in Clients(b) : client_transactions[b][c] = 0
    /\ [][\A b \in Brokers : \A c \in Clients(b) :
              \/ client_transactions'[b][c] = client_transactions[b][c]
              \/ client_transactions'[b][c] = client_transactions[b][c] + 1]_vars

\* a worker has raised one client's count twice and left another client of the
\* same roster at 0
CountRaisedTwice ==
    \E b \in Brokers : \E c1, c2 \in Clients(b) :
        /\ client_transactions[b][c1] = 2
        /\ client_transactions[b][c2] = 0
        /\ Processed(b)

EveryTickUpdatesAll ==
    tick_i = 0 =>
        \A i \in DOMAIN shared_stock : shared_stock[i].v_tick = ticks

\* some client of the worker is below the limit
BelowQuota(b) == \E c \in Clients(b) : client_transactions[b][c] < transaction_limit

\* C15: a running worker below its quota can receive whatever is queued, also
\* after the Sender is gone; it leaves its loop without receiving only when the
\* channel is empty and the Sender is gone, and then it returns (it does not
\* panic) with its counts and earnings as they were.
ClosureEndsWorker ==
    /\ [](\A b \in Brokers :
             (pc[b] = "running" /\ BelowQuota(b) /\ channel # <<>>) => ENABLED Receive(b))
    /\ [][\A b \in Brokers :
             (/\ pc[b] = "running"
              /\ BelowQuota(b)
              /\ pc'[b] # "running"
              /\ stock'[b] = stock[b]) =>
                 /\ channel = <<>>
                 /\ ~sender_alive
                 /\ pc'[b] = "done"
                 /\ client_transactions'[b] = client_transactions[b]
                 /\ client_earnings'[b] = client_earnings[b]]_vars

\* after the main flow panicked and the Sender was dropped, a worker that had
\* received a classified update and sold returned below its quota with the
\* earnings it had
ReturnedOnClosure ==
    \E b \in Brokers :
        /\ main_pc = "panicked"
        /\ ~sender_alive
        /\ pc[b] = "done"
        /\ BelowQuota(b)
        /\ Received(b)
        /\ stock_type(stock[b].name) \in StockType
        /\ \E c \in DOMAIN client_earnings[b] : client_earnings[b][c] > 0

\* C16: every Sell order is placed at a price above the previous price, and
\* every entry of every earnings map is >= 0 and belongs to a client that has
\* placed an order.
EarningsNonNegative ==
    \A b \in Brokers :
        /\ \A c \in DOMAIN client_earnings[b] :
            client_earnings[b][c] >= 0 /\ client_transactions[b][c] >= 1
        /\ \A c \in DOMAIN orders[b] :
            orders[b][c].order_type = "selling" => orders[b][c].price > orders[b][c].prev_price

\* a client has sold twice, the client's last order is a Sell, and it has
\* earnings above zero
SoldTwice ==
    \E b \in Brokers : \E c \in DOMAIN client_earnings[b] :
        /\ Placed(b, c) = "selling"
        /\ client_transactions[b][c] = 2
        /\ client_earnings[b][c] >= 2 * 10 * 10

\* worker b changes some part of its state in the step
WorkerStep(b) ==
    \/ pc'[b] # pc[b]
    \/ stock'[b] # stock[b]
    \/ orders'[b] # orders[b]
    \/ client_transactions'[b] # client_transactions[b]
    \/ client_earnings'[b] # client_earnings[b]

\* C18: a step of a worker leaves the registry and every other worker's state
\* unchanged; the registry changes only in a step of the running closure, one
\* instrument at a time, and no worker's state changes with it; a worker that
\* receives holds exactly the snapshot that headed the queue, and its orders
\* carry that snapshot's prices.
WorkersOwnStateOnly ==
    [][/\ \A b \in Brokers :
            WorkerStep(b) =>
                /\ shared_stock' = shared_stock
                /\ \A o \in Brokers \ {b} : ~WorkerStep(o)
       /\ shared_stock' # shared_stock =>
            /\ tick_i > 0
            /\ \A i \in DOMAIN shared_stock : i # tick_i => shared_stock'[i] = shared_stock[i]
            /\ \A b \in Brokers : ~WorkerStep(b)
       /\ \A b \in Brokers :
            stock'[b] # stock[b] =>
                /\ channel # <<>>
                /\ stock'[b] = Head(channel)
                /\ \A c \in DOMAIN orders'[b] :
                    /\ orders'[b][c].price = Head(channel).v
                    /\ orders'[b][c].prev_price = Head(channel).prev_v]_vars

\* a worker placed an order at the prices of the snapshot it holds after the
\* registry had moved that instrument on to another price
OrderOnOldSnapshot ==
    \E b \in Brokers : \E c \in DOMAIN orders[b] :
        /\ Processed(b)
        /\ orders[b][c].price = stock[b].v
        /\ \E i \in DOMAIN shared_stock :
            /\ shared_stock[i].name = stock[b].name
            /\ shared_stock[i].v_tick > stock[b].v_tick
            /\ shared_stock[i].v # stock[b].v

\* C19: a worker receives only while it runs and some client of its roster is
\* below the limit; a running worker whose clients are all at the limit can
\* return and cannot receive; a worker with an empty roster or a limit <= 0
\* never receives.
StopCheckedBeforeReceive ==
    /\ [](\A b \in Brokers :
             /\ (Clients(b) = {} \/ transaction_limit <= 0) => ~Received(b)
             /\ (/\ pc[b] = "running"
                 /\ \A c \in Clients(b) : client_transactions[b][c] >= transaction_limit) =>
                    (ENABLED WorkerReturn(b) /\ ~ENABLED Receive(b)))
    /\ [][\A b \in Brokers :
             stock'[b] # stock[b] =>
                 /\ pc[b] = "running"
                 /\ \E c \in Clients(b) : client_transactions[b][c] < transaction_limit]_vars

\* a worker returned with its only client at the limit and left an update
\* queued, and a worker with an empty roster returned without receiving
ReturnedLeavingUpdate ==
    \E b1, b2 \in Brokers :
        /\ pc[b1] = "done"
        /\ Received(b1)
        /\ Clients(b1) # {}
        /\ \A c \in Clients(b1) : client_transactions[b1][c] = transaction_limit
        /\ channel # <<>>
        /\ Clients(b2) = {}
        /\ pc[b2] = "done"
        /\ ~Received(b2)

\* C20: in every step in which a worker processes an update, each client's
\* count rises by one if an order was placed for it and stays otherwise; an
\* order is a Buy on a fallen price or a Sell on a risen price; no order is
\* placed when the sector differs, when a Limit client's thresholds are not
\* reached or when the price did not change, and then the client's count and
\* earnings stay; no other step changes a count.
OneOrderPerClient ==
    [][\A b \in Brokers : \A c \in Clients(b) :
          IF stock'[b] # stock[b] /\ pc'[b] # "panicked"
          THEN LET p == client_preferences[b][c]
                   d == stock'[b].v - stock'[b].prev_v
                   placed == c \in DOMAIN orders'[b]
               IN  /\ client_transactions'[b][c] =
                          client_transactions[b][c] + (IF placed THEN 1 ELSE 0)
                   /\ placed =>
                          \/ orders'[b][c].order_type = "buying" /\ d < 0
                          \/ orders'[b][c].order_type = "selling" /\ d > 0
                   /\ (\/ stock_type(stock'[b].name) # p.stock_type
                       \/ /\ p.order_category = "Limit"
                          /\ d > -p.min_change_buy
                          /\ d < p.min_change_sell
                       \/ d = 0) => ~placed
                   /\ ~placed =>
                          EarningsOf(client_earnings'[b], c) = EarningsOf(client_earnings[b], c)
          ELSE client_transactions'[b][c] = client_transactions[b][c]]_vars

\* a Market client that had placed one order got none on an update of its
\* sector whose price did not change, and its count is still 1
NoOrderOnZeroChange ==
    \E b \in Brokers : \E c \in Clients(b) :
        /\ Processed(b)
        /\ client_preferences[b][c].order_category = "Market"
        /\ stock_type(stock[b].name) = client_preferences[b][c].stock_type
        /\ stock[b].v = stock[b].prev_v
        /\ Placed(b, c) = "none"
        /\ client_transactions[b][c] = 1

====
